---- MODULE Spec2Model ----
(***************************************************************************)
(* Model of eyek (src/main.rs): baking one UV texture from several camera  *)
(* photographs.  The module holds the run of main (parallel camera passes, *)
(* combine, fill, save) and the pure parts of the pipeline: combine_layers *)
(* with its three blending policies, fill_empty_pixels, closest_faces and  *)
(* the texel loop of face_img_to_uv.                                       *)
(***************************************************************************)
EXTENDS Integers, Sequences, FiniteSets, TLC

VARIABLES
    pc,            \* position of main / phase of the operation under study
    properties,    \* Properties: fill flag and blending policy
    cam_num,       \* cameras.len()
    worker,        \* per camera: "queued" | "casting" | "finished" | "panicked"
    textures,      \* the per-camera layers, in camera order
    mono_texture,  \* the combined texture
    saved,         \* the output file: <<>> until written, then <<texture>>
    steps,         \* history: the steps main has run after the parallel section
    fill_cursor,   \* index of the next texel of fill_empty_pixels' scan
    fill_reads,    \* history: the last call of blend_pixel_with_neigbhours
    fill_isolated, \* history: texels visited while transparent with no written neighbour
    cf_in,         \* arguments of closest_faces
    cf_out,        \* its result: the candidates returned, by index
    uv_in,         \* face_img_to_uv: texture size, clip_uv and the UV bounding box
    uv_cursor,     \* the texel (u, v) the loop is at
    uv_written,    \* the layer positions (column, row) written so far
    uv_last,       \* history: the last texel visited and what was done with it
    hp_in,         \* Tris2D::has_point: the triangle a, b, c and the point pt
    hp_out         \* its result, with the barycentric coordinates it computed

vars == <<pc, properties, cam_num, worker, textures, mono_texture, saved, steps,
          fill_cursor, fill_reads, fill_isolated, cf_in, cf_out,
          uv_in, uv_cursor, uv_written, uv_last, hp_in, hp_out>>

runVars  == <<cam_num, worker, saved, steps>>
fillVars == <<fill_cursor, fill_reads, fill_isolated>>
cfVars   == <<cf_in, cf_out>>
uvVars   == <<uv_in, uv_cursor, uv_written, uv_last>>
hpVars   == <<hp_in, hp_out>>

(***************************************************************************)
(* Bounds of the model.                                                    *)
(***************************************************************************)
MaxCams == 2
MaxLayers == 3

(***************************************************************************)
(* Images.  An RgbaImage is its dimensions and one <<r, g, b, a>> per      *)
(* position; RgbaImage::new is all zero.                                   *)
(***************************************************************************)
Blendings == {"Average", "Median", "Mode"}

Coords(w, h) == (0 .. w - 1) \X (0 .. h - 1)

NewImage(w, h) == [w |-> w, h |-> h, px |-> [p \in Coords(w, h) |-> <<0, 0, 0, 0>>]]

get_pixel(t, x, y) == t.px[<<x, y>>]

put_pixel(t, x, y, col) == [t EXCEPT !.px[<<x, y>>] = col]

(***************************************************************************)
(* Blending policies.                                                      *)
(***************************************************************************)
RECURSIVE SumChannel(_, _)
SumChannel(colors, k) ==
    IF colors = <<>> THEN 0 ELSE colors[1][k] + SumChannel(Tail(colors), k)

\* the sums are usize, the quotients are cast to u8
AverageWrapping(colors) ==
    << ((SumChannel(colors, 1) % 256) \div Len(colors)) % 256,
       ((SumChannel(colors, 2) % 256) \div Len(colors)) % 256,
       ((SumChannel(colors, 3) % 256) \div Len(colors)) % 256 >>

average(colors) ==
    << (SumChannel(colors, 1) \div Len(colors)) % 256,
       (SumChannel(colors, 2) \div Len(colors)) % 256,
       (SumChannel(colors, 3) \div Len(colors)) % 256 >>

\* f32 sqrt of an integer below 2^24 cast to usize: the integer square root
isqrt(n) == CHOOSE k \in 0 .. 442 : k * k <= n /\ (k + 1) * (k + 1) > n

col_len(c) == isqrt(c[1] * c[1] + c[2] * c[2] + c[3] * c[3])

\* Vec::sort_by is stable: an element goes after every element whose key is
\* not greater than its own
RECURSIVE InsertStable(_, _)
InsertStable(sorted, c) ==
    IF sorted = <<>> THEN <<c>>
    ELSE IF col_len(Head(sorted)) <= col_len(c)
         THEN <<Head(sorted)>> \o InsertStable(Tail(sorted), c)
         ELSE <<c>> \o sorted

RECURSIVE sort_by_col_len(_)
sort_by_col_len(colors) ==
    IF colors = <<>> THEN <<>>
    ELSE InsertStable(sort_by_col_len(SubSeq(colors, 1, Len(colors) - 1)),
                      colors[Len(colors)])

MedianLowerMiddle(colors) == sort_by_col_len(colors)[((Len(colors) - 1) \div 2) + 1]

median(colors) == sort_by_col_len(colors)[(Len(colors) \div 2) + 1]

\* the counting loop of mode: seen_map and max_val
RECURSIVE count_loop(_, _, _)
count_loop(colors, seen_map, max_val) ==
    IF colors = <<>> THEN [seen_map |-> seen_map, max_val |-> max_val]
    ELSE LET c   == Head(colors)
             ctr == (IF c \in DOMAIN seen_map THEN seen_map[c] ELSE 0) + 1
         IN  count_loop(Tail(colors), (c :> ctr) @@ seen_map,
                        IF ctr > max_val THEN ctr ELSE max_val)

ModeAnySeen(colors) == DOMAIN count_loop(colors, <<>>, 0).seen_map

\* vec_mode: the keys whose count is max_val, in the HashMap's iteration
\* order, which is not fixed: the set of colours that can come first
mode(colors) ==
    LET r == count_loop(colors, <<>>, 0)
    IN  {key \in DOMAIN r.seen_map : r.seen_map[key] = r.max_val}

(***************************************************************************)
(* combine_layers.                                                         *)
(***************************************************************************)
RECURSIVE CollectAllLayers(_, _)
CollectAllLayers(layers, p) ==
    IF layers = <<>> THEN <<>>
    ELSE LET col == Head(layers).px[p]
         IN  << <<col[1], col[2], col[3]>> >> \o CollectAllLayers(Tail(layers), p)

\* the colours pushed for position p: those of the layers with alpha != 0
RECURSIVE collect_colors(_, _)
collect_colors(layers, p) ==
    IF layers = <<>> THEN <<>>
    ELSE LET col  == Head(layers).px[p]
             rest == collect_colors(Tail(layers), p)
         IN  IF col[4] # 0 THEN << <<col[1], col[2], col[3]>> >> \o rest ELSE rest

blend(colors, blending) ==
    CASE blending = "Average" -> {average(colors)}
      [] blending = "Median"  -> {median(colors)}
      [] blending = "Mode"    -> mode(colors)

\* the pixels combine_layers can leave at position p
combined_pixel(layers, p, blending) ==
    LET colors == collect_colors(layers, p)
    IN  IF Len(colors) > 0
        THEN {<<m[1], m[2], m[3], 255>> : m \in blend(colors, blending)}
        ELSE {<<0, 0, 0, 0>>}

combine_layers(layers, blending) ==
    LET w  == layers[1].w
        h  == layers[1].h
        ps == UNION {combined_pixel(layers, p, blending) : p \in Coords(w, h)}
    IN  {[w |-> w, h |-> h, px |-> f] :
            f \in {g \in [Coords(w, h) -> ps] :
                      \A p \in Coords(w, h) : g[p] \in combined_pixel(layers, p, blending)}}

(***************************************************************************)
(* fill_empty_pixels and blend_pixel_with_neigbhours.                      *)
(***************************************************************************)
MaxFillW == 3
MaxFillH == 2

ways == << <<0, 1>>, <<1, 1>>, <<1, 0>>, <<1, -1>>,
           <<0, -1>>, <<-1, 1>>, <<-1, 0>>, <<-1, -1>> >>

\* % on i32 truncates toward zero: the sign is the dividend's
rem(a, b) == IF a >= 0 THEN a % b ELSE -((-a) % b)

\* (i as u32).min(m) for an i32 i and 0 <= m < 2^31: a negative i wraps to
\* i + 2^32, which is above m
u32_min(i, m) == IF i < 0 \/ i > m THEN m ELSE i

\* the position get_pixel is called with for offset way of texel (x, y)
neighbour(x, y, way, bx, by) ==
    << u32_min(x + rem(way[1], bx), bx - 1),
       u32_min(y + rem(way[2], by), by - 1) >>

neighbours_read(t, x, y) == [k \in 1 .. 8 |-> neighbour(x, y, ways[k], t.w, t.h)]

RECURSIVE SumNeighbours(_, _, _)
SumNeighbours(cols, ch, k) ==
    IF k = 0 THEN 0
    ELSE (IF cols[k][4] # 0 THEN cols[k][ch] ELSE 0) + SumNeighbours(cols, ch, k - 1)

blend_pixel_with_neigbhours(t, x, y) ==
    LET reads       == neighbours_read(t, x, y)
        cols        == [k \in 1 .. 8 |-> t.px[reads[k]]]
        neibs_count == Cardinality({k \in 1 .. 8 : cols[k][4] # 0})
        chan(ch)    == IF neibs_count # 0
                       THEN SumNeighbours(cols, ch, 8) \div neibs_count
                       ELSE SumNeighbours(cols, ch, 8)
    IN  <<chan(1) % 256, chan(2) % 256, chan(3) % 256, 255>>

\* the body of fill_empty_pixels' loop for texel (u, v)
fill_texel(t, u, v) ==
    IF get_pixel(t, u, v)[4] = 0
    THEN LET blended_color == blend_pixel_with_neigbhours(t, u, v)
         IN  IF blended_color[4] # 0 THEN put_pixel(t, u, v, blended_color) ELSE t
    ELSE t

\* the k-th texel of the scan: v from height - 1 down to 0, u from 0 up
scan_at(w, h, k) == << (k - 1) % w, h - 1 - ((k - 1) \div w) >>

RECURSIVE fill_from(_, _)
fill_from(t, k) ==
    IF k > t.w * t.h THEN t
    ELSE fill_from(fill_texel(t, scan_at(t.w, t.h, k)[1], scan_at(t.w, t.h, k)[2]), k + 1)

fill_empty_pixels(t) == fill_from(t, 1)

(***************************************************************************)
(* closest_faces.  An f32 is a rational n/d with d > 0, +infinity or NaN;  *)
(* rounding is not modelled.                                               *)
(***************************************************************************)
MaxCands == 3

Rat(n, d) == [k |-> "num", n |-> n, d |-> d]

Inf == [k |-> "inf", n |-> 0, d |-> 1]

NaN == [k |-> "nan", n |-> 0, d |-> 1]

IsNum(a) == a.k = "num"

\* a - b; -inf does not arise: no caller subtracts inf from a number
FSub(a, b) ==
    IF a.k = "nan" \/ b.k = "nan" THEN NaN
    ELSE IF a.k = "inf" THEN (IF b.k = "inf" THEN NaN ELSE Inf)
    ELSE IF b.k = "inf" THEN NaN
    ELSE Rat(a.n * b.d - b.n * a.d, a.d * b.d)

FAdd(a, b) ==
    IF a.k = "nan" \/ b.k = "nan" THEN NaN
    ELSE IF a.k = "inf" \/ b.k = "inf" THEN Inf
    ELSE Rat(a.n * b.d + b.n * a.d, a.d * b.d)

\* a / b for a >= 0; the denominator of the result is kept positive
FDiv(a, b) ==
    IF a.k = "nan" \/ b.k = "nan" THEN NaN
    ELSE IF a.k = "inf" THEN (IF b.k = "inf" THEN NaN ELSE Inf)
    ELSE IF b.k = "inf" THEN Rat(0, 1)
    ELSE IF b.n = 0 THEN (IF a.n = 0 THEN NaN ELSE Inf)
    ELSE IF b.n < 0 THEN Rat(-(a.n * b.d), a.d * (-b.n))
    ELSE Rat(a.n * b.d, a.d * b.n)

\* a <= b: false when either is NaN
FLe(a, b) ==
    IF a.k = "nan" \/ b.k = "nan" THEN FALSE
    ELSE IF b.k = "inf" THEN TRUE
    ELSE IF a.k = "inf" THEN FALSE
    ELSE a.n * b.d <= b.n * a.d

\* f32::max
FMax(a, b) ==
    IF a.k = "nan" THEN b ELSE IF b.k = "nan" THEN a ELSE IF FLe(a, b) THEN b ELSE a

\* sort_by(partial_cmp) is stable: index i goes after every index whose
\* distance is not greater
RECURSIVE InsertByDistance(_, _, _)
InsertByDistance(sorted, i, dist) ==
    IF sorted = <<>> THEN <<i>>
    ELSE IF FLe(dist[Head(sorted)], dist[i])
         THEN <<Head(sorted)>> \o InsertByDistance(Tail(sorted), i, dist)
         ELSE <<i>> \o sorted

RECURSIVE sort_by_distance(_, _)
sort_by_distance(k, dist) ==
    IF k = 0 THEN <<>> ELSE InsertByDistance(sort_by_distance(k - 1, dist), k, dist)

RECURSIVE FilterSeq(_, _, _, _)
FilterSeq(s, dist, dmin, epsilon) ==
    IF s = <<>> THEN <<>>
    ELSE (IF FLe(FSub(dist[Head(s)], dmin), epsilon) THEN <<Head(s)>> ELSE <<>>)
         \o FilterSeq(Tail(s), dist, dmin, epsilon)

EpsilonNoGuard(dmin, near, far) == FAdd(near, FDiv(dmin, FSub(far, near)))

epsilon_of(dmin, near, far) ==
    FAdd(near, FDiv(dmin, FMax(FSub(far, near), Rat(1, 10000))))

\* faces are named by their index in the candidate list; dist[i] is the
\* ray's intersection distance to candidate i
closest_faces(dist, near, far) ==
    IF Len(dist) <= 1 THEN [i \in 1 .. Len(dist) |-> i]
    ELSE LET closest == sort_by_distance(Len(dist), dist)
             dmin    == dist[closest[1]]
         IN  FilterSeq(closest, dist, dmin, epsilon_of(dmin, near, far))

(***************************************************************************)
(* The texel loop of face_img_to_uv.                                       *)
(***************************************************************************)
MaxTexDim == 2
MaxUVCoord == 3

UvAcceptOffByOne(u, v, w, h, clip_uv) == (u <= w /\ v <= h) \/ ~clip_uv

\* the clip test guarding the write
uv_accept(u, v, w, h, clip_uv) == (u < w /\ v < h) \/ ~clip_uv

\* (uv_u, uv_v): u and v themselves, or their f32 remainders cast to u32
uv_wrap(u, v, w, h, clip_uv) ==
    IF clip_uv THEN <<u, v>> ELSE <<u % w, v % h>>

\* the position handed to put_pixel
uv_target(u, v, w, h, clip_uv) ==
    LET uv == uv_wrap(u, v, w, h, clip_uv) IN <<uv[1], h - uv[2] - 1>>

\* the texel after (u, v): u runs inside v; "done" after the last one
uv_next(u, v, in) ==
    IF u < in.max_u THEN <<u + 1, v>>
    ELSE IF v < in.max_v THEN <<in.min_u, v + 1>>
    ELSE "done"

(***************************************************************************)
(* Tris2D: cartesian_to_barycentric and has_point.  Coordinates are f32,   *)
(* modelled as above; z is not read by either function.                    *)
(***************************************************************************)
MaxGrid == 2

\* a * b; an infinite factor does not arise for a triangle of non-zero area
FMul(a, b) ==
    IF a.k # "num" \/ b.k # "num" THEN NaN
    ELSE Rat(a.n * b.n, a.d * b.d)

\* the difference of two points, as Point3 - Point3
PSub(p, q) == [x |-> FSub(p.x, q.x), y |-> FSub(p.y, q.y)]

\* <<u, v, w>>
cartesian_to_barycentric(tri, pt) ==
    LET v0  == PSub(tri.b, tri.a)
        v1  == PSub(tri.c, tri.a)
        v2  == PSub(pt, tri.a)
        den == FDiv(Rat(1, 1), FSub(FMul(v0.x, v1.y), FMul(v1.x, v0.y)))
        v   == FMul(FSub(FMul(v2.x, v1.y), FMul(v1.x, v2.y)), den)
        w   == FMul(FSub(FMul(v0.x, v2.y), FMul(v2.x, v0.y)), den)
        u   == FSub(FSub(Rat(1, 1), v), w)
    IN  <<u, v, w>>

HasPointNoLowerX(tri, pt) ==
    LET bary == cartesian_to_barycentric(tri, pt)
    IN  /\ FLe(bary[1], Rat(1, 1))
        /\ FLe(Rat(0, 1), bary[2])
        /\ FLe(bary[3], Rat(1, 1))
        /\ FLe(Rat(0, 1), bary[3])
        /\ FLe(bary[3], Rat(1, 1))

\* the six tests as written: bary.y is tested from below only, bary.z from
\* above twice
has_point(tri, pt) ==
    LET bary == cartesian_to_barycentric(tri, pt)
    IN  /\ FLe(Rat(0, 1), bary[1])
        /\ FLe(bary[1], Rat(1, 1))
        /\ FLe(Rat(0, 1), bary[2])
        /\ FLe(bary[3], Rat(1, 1))
        /\ FLe(Rat(0, 1), bary[3])
        /\ FLe(bary[3], Rat(1, 1))

(***************************************************************************)
(* Values the variables of the other parts hold while one part runs.       *)
(***************************************************************************)
NoImage == [w |-> 0, h |-> 0, px |-> <<>>]

NoReads == [called |-> FALSE, at |-> <<0, 0>>, reads |-> <<>>]

NoCall == [dist |-> <<>>, near |-> Rat(0, 1), far |-> Rat(0, 1)]

NoFace == [w |-> 0, h |-> 0, clip_uv |-> TRUE,
           min_u |-> 0, max_u |-> 0, min_v |-> 0, max_v |-> 0]

NoTris == [a |-> [x |-> Rat(0, 1), y |-> Rat(0, 1)], b |-> [x |-> Rat(0, 1), y |-> Rat(0, 1)],
           c |-> [x |-> Rat(0, 1), y |-> Rat(0, 1)], pt |-> [x |-> Rat(0, 1), y |-> Rat(0, 1)]]

NoAnswer == [called |-> FALSE, bary |-> <<Rat(0, 1), Rat(0, 1), Rat(0, 1)>>, result |-> FALSE]

NoVisit == [visited |-> FALSE, u |-> 0, v |-> 0, passes |-> FALSE,
            wrote |-> FALSE, at |-> <<0, 0>>]

RunIdle ==
    /\ cam_num = 0 /\ worker = <<>> /\ saved = <<>> /\ steps = <<>>

FillIdle ==
    /\ fill_cursor = 0 /\ fill_reads = NoReads /\ fill_isolated = {}

ClosestIdle ==
    /\ cf_in = NoCall /\ cf_out = <<>>

UvIdle ==
    /\ uv_in = NoFace /\ uv_cursor = "done" /\ uv_written = {} /\ uv_last = NoVisit

HpIdle ==
    /\ hp_in = NoTris /\ hp_out = NoAnswer

(***************************************************************************)
(* The run of main.  The cameras' passes run on rayon's pool, one worker   *)
(* per camera; a pass writes source pixels into its own layer.  The layer  *)
(* is img_res_x by img_res_y; the photographs' pixels come from            *)
(* PhotoColors.                                                            *)
(***************************************************************************)
ImgRes == <<2, 1>>

PhotoColors == {<<255, 0, 0, 255>>, <<1, 1, 1, 255>>}

Cams == 1 .. cam_num

Init ==
    /\ pc = "par_iter"
    /\ properties \in [fill : BOOLEAN, blending : Blendings]
    /\ cam_num \in 0 .. MaxCams
    /\ worker = [c \in 1 .. cam_num |-> "queued"]
    /\ textures = [c \in 1 .. cam_num |-> NewImage(ImgRes[1], ImgRes[2])]
    /\ mono_texture = NoImage
    /\ saved = <<>>
    /\ steps = <<>>
    /\ FillIdle /\ ClosestIdle /\ UvIdle /\ HpIdle

\* the closure starts for camera c: RgbaImage::new, then image::open succeeds
OpenImage(c) ==
    /\ pc = "par_iter"
    /\ worker[c] = "queued"
    /\ worker' = [worker EXCEPT ![c] = "casting"]
    /\ textures' = [textures EXCEPT ![c] = NewImage(ImgRes[1], ImgRes[2])]
    /\ UNCHANGED <<pc, properties, cam_num, mono_texture, saved, steps,
                   fillVars, cfVars, uvVars, hpVars>>

\* image::open(..).unwrap() panics in the worker
OpenImageFails(c) ==
    /\ pc = "par_iter"
    /\ worker[c] = "queued"
    /\ worker' = [worker EXCEPT ![c] = "panicked"]
    /\ UNCHANGED <<pc, properties, cam_num, textures, mono_texture, saved, steps,
                   fillVars, cfVars, uvVars, hpVars>>

\* one texture.put_pixel of camera c's pass
CastPixel(c) ==
    /\ pc = "par_iter"
    /\ worker[c] = "casting"
    /\ \E p \in Coords(ImgRes[1], ImgRes[2]), col \in PhotoColors :
          textures' = [textures EXCEPT ![c] = put_pixel(@, p[1], p[2], col)]
    /\ UNCHANGED <<pc, properties, cam_num, worker, mono_texture, saved, steps,
                   fillVars, cfVars, uvVars, hpVars>>

\* cast_pixels_rays returns and the closure yields the layer
FinishCam(c) ==
    /\ pc = "par_iter"
    /\ worker[c] = "casting"
    /\ worker' = [worker EXCEPT ![c] = "finished"]
    /\ UNCHANGED <<pc, properties, cam_num, textures, mono_texture, saved, steps,
                   fillVars, cfVars, uvVars, hpVars>>

JoinIgnoresRunning == \A c \in Cams : worker[c] # "queued"

JoinIgnoresPanics == \A c \in Cams : worker[c] \in {"finished", "panicked"}

\* collect() returns once every camera's closure has returned its layer
all_collected == \A c \in Cams : worker[c] = "finished"

Collect ==
    /\ pc = "par_iter"
    /\ all_collected
    /\ pc' = "combine"
    /\ UNCHANGED <<properties, textures, mono_texture, runVars, fillVars, cfVars, uvVars, hpVars>>

\* a worker's panic is resumed in main, which unwinds: the process ends
Unwind ==
    /\ pc = "par_iter"
    /\ \E c \in Cams : worker[c] = "panicked"
    /\ pc' = "panicked"
    /\ UNCHANGED <<properties, textures, mono_texture, runVars, fillVars, cfVars, uvVars, hpVars>>

Step(op) == [op |-> op, unfinished |-> {c \in Cams : worker[c] # "finished"}]

\* combine_layers(textures, properties.blending); textures[0] panics on no layer
Combine ==
    /\ pc = "combine"
    /\ IF cam_num = 0
       THEN /\ pc' = "panicked"
            /\ UNCHANGED <<mono_texture, steps>>
       ELSE /\ mono_texture' \in combine_layers(textures, properties.blending)
            /\ steps' = Append(steps, Step("combine"))
            /\ pc' = IF properties.fill THEN "fill" ELSE "save"
    /\ UNCHANGED <<properties, textures, cam_num, worker, saved, fillVars, cfVars, uvVars, hpVars>>

Fill ==
    /\ pc = "fill"
    /\ mono_texture' = fill_empty_pixels(mono_texture)
    /\ steps' = Append(steps, Step("fill"))
    /\ pc' = "save"
    /\ UNCHANGED <<properties, textures, cam_num, worker, saved, fillVars, cfVars, uvVars, hpVars>>

Save ==
    /\ pc = "save"
    /\ saved' = <<mono_texture>>
    /\ steps' = Append(steps, Step("save"))
    /\ pc' = "done"
    /\ UNCHANGED <<properties, textures, mono_texture, cam_num, worker,
                   fillVars, cfVars, uvVars, hpVars>>

\* mono_texture.save(..).unwrap() panics: nothing is written
SaveFails ==
    /\ pc = "save"
    /\ pc' = "panicked"
    /\ UNCHANGED <<properties, textures, mono_texture, runVars, fillVars, cfVars, uvVars, hpVars>>

Next ==
    \/ \E c \in Cams : OpenImage(c)
    \/ \E c \in Cams : OpenImageFails(c)
    \/ \E c \in Cams : CastPixel(c)
    \/ \E c \in Cams : FinishCam(c)
    \/ Collect
    \/ Unwind
    \/ Combine
    \/ Fill
    \/ Save
    \/ SaveFails

Spec == Init /\ [][Next]_vars

\* C3: main's steps after the parallel section run in the order combine,
\* fill (exactly when the fill flag is set), save; each of them, and the
\* combine step first of all, starts with every camera's pass finished;
\* the file is written only by the save step.
C3_Ordering ==
    /\ pc \in {"combine", "fill", "save", "done"} => \A c \in Cams : worker[c] = "finished"
    /\ \A i \in 1 .. Len(steps) : steps[i].unfinished = {}
    /\ [i \in 1 .. Len(steps) |-> steps[i].op] \in
          IF properties.fill
          THEN {<<>>, <<"combine">>, <<"combine", "fill">>, <<"combine", "fill", "save">>}
          ELSE {<<>>, <<"combine">>, <<"combine", "save">>}
    /\ saved # <<>> => /\ Len(steps) > 0
                         /\ steps[Len(steps)].op = "save"

C3_Witness ==
    /\ pc = "done"
    /\ cam_num >= 2
    /\ properties.fill
    /\ saved # <<>>
    /\ Len(steps) = 3

\* C4: once a camera's photograph failed to load, the output file is not
\* written and main never reaches the combine, fill or save step, whatever
\* the other workers have done.
C4_LoadFailureAborts ==
    (\E c \in Cams : worker[c] = "panicked") =>
        /\ saved = <<>>
        /\ pc \in {"par_iter", "panicked"}
        /\ steps = <<>>

C4_Witness ==
    /\ pc = "panicked"
    /\ \E c \in Cams : worker[c] = "panicked"
    /\ \E c \in Cams : worker[c] = "finished" /\ get_pixel(textures[c], 0, 0)[4] # 0

(***************************************************************************)
(* combine_layers on its own: any one to MaxLayers layers of one pixel.    *)
(***************************************************************************)
LayerPixels == {<<0, 0, 0, 0>>, <<9, 9, 9, 0>>, <<255, 0, 0, 255>>,
                <<1, 1, 1, 255>>, <<2, 2, 2, 128>>, <<3, 0, 0, 255>>}

OnePixel(col) == [w |-> 1, h |-> 1, px |-> [p \in Coords(1, 1) |-> col]]

InitCombine ==
    /\ pc = "combine"
    /\ properties \in [fill : {FALSE}, blending : Blendings]
    /\ \E n \in 1 .. MaxLayers :
          textures \in [1 .. n -> {OnePixel(col) : col \in LayerPixels}]
    /\ mono_texture = NoImage
    /\ RunIdle /\ FillIdle /\ ClosestIdle /\ UvIdle /\ HpIdle

CombineLayers ==
    /\ pc = "combine"
    /\ mono_texture' \in combine_layers(textures, properties.blending)
    /\ pc' = "combined"
    /\ UNCHANGED <<properties, textures, runVars, fillVars, cfVars, uvVars, hpVars>>

NextCombine == CombineLayers

SpecCombine == InitCombine /\ [][NextCombine]_vars

\* the layers that are not transparent at position p
Opaque(p) == {i \in 1 .. Len(textures) : textures[i].px[p][4] # 0}

\* C5: after combine_layers a position where some layer has alpha != 0 has
\* alpha 255, and a position where every layer has alpha 0 is fully
\* transparent; no other alpha appears.
C5_CombinedAlpha ==
    pc = "combined" =>
        \A p \in Coords(mono_texture.w, mono_texture.h) :
            /\ Opaque(p) # {} => mono_texture.px[p][4] = 255
            /\ Opaque(p) = {} => mono_texture.px[p] = <<0, 0, 0, 0>>
            /\ mono_texture.px[p][4] \in {0, 255}

C5_Witness ==
    /\ pc = "combined"
    /\ Len(textures) = 3
    /\ textures[1].px[<<0, 0>>] = <<9, 9, 9, 0>>
    /\ textures[2].px[<<0, 0>>] = <<2, 2, 2, 128>>
    /\ mono_texture.px[<<0, 0>>][4] = 255

\* floor(sqrt(a)) < floor(sqrt(b)): a square lies above a and not above b
MagnitudeLess(a, b) ==
    \E k \in 1 .. 442 :
        /\ a[1] * a[1] + a[2] * a[2] + a[3] * a[3] < k * k
        /\ k * k <= b[1] * b[1] + b[2] * b[2] + b[3] * b[3]

Rgb(i, p) == <<textures[i].px[p][1], textures[i].px[p][2], textures[i].px[p][3]>>

\* the opaque layers that come before layer i in the ascending, stable order
Before(i, p) ==
    {j \in Opaque(p) :
        \/ MagnitudeLess(Rgb(j, p), Rgb(i, p))
        \/ /\ ~MagnitudeLess(Rgb(i, p), Rgb(j, p))
           /\ j < i}

\* C6: under Median the colour written is that of the layer with exactly
\* floor(n/2) of the n opaque layers before it, ordering by truncated
\* magnitude and, among equal magnitudes, by layer order.
C6_Median ==
    (pc = "combined" /\ properties.blending = "Median") =>
        \A p \in Coords(mono_texture.w, mono_texture.h) :
            Opaque(p) # {} =>
                \E i \in Opaque(p) :
                    /\ Cardinality(Before(i, p)) = Cardinality(Opaque(p)) \div 2
                    /\ mono_texture.px[p] = <<Rgb(i, p)[1], Rgb(i, p)[2], Rgb(i, p)[3], 255>>

\* two colours of equal magnitude 3: the later layer's colour is the median
C6_Witness ==
    /\ pc = "combined"
    /\ properties.blending = "Median"
    /\ Len(textures) = 2
    /\ textures[1].px[<<0, 0>>] = <<3, 0, 0, 255>>
    /\ textures[2].px[<<0, 0>>] = <<2, 2, 2, 128>>
    /\ mono_texture.px[<<0, 0>>] = <<2, 2, 2, 255>>

Occurrences(c, p) == Cardinality({i \in Opaque(p) : Rgb(i, p) = c})

\* C7: under Mode the colour written occurs among the opaque layers as often
\* as the most frequent colour does.
C7_Mode ==
    (pc = "combined" /\ properties.blending = "Mode") =>
        \A p \in Coords(mono_texture.w, mono_texture.h) :
            Opaque(p) # {} =>
                LET m == mono_texture.px[p]
                IN  /\ m[4] = 255
                    /\ \A i \in Opaque(p) :
                          Occurrences(<<m[1], m[2], m[3]>>, p) >= Occurrences(Rgb(i, p), p)
                    /\ Occurrences(<<m[1], m[2], m[3]>>, p) > 0

C7_Witness ==
    /\ pc = "combined"
    /\ properties.blending = "Mode"
    /\ Len(textures) = 3
    /\ textures[1].px[<<0, 0>>] = <<1, 1, 1, 255>>
    /\ textures[2].px[<<0, 0>>] = <<1, 1, 1, 255>>
    /\ textures[3].px[<<0, 0>>] = <<2, 2, 2, 128>>
    /\ mono_texture.px[<<0, 0>>] = <<1, 1, 1, 255>>

RECURSIVE OpaqueSum(_, _, _)
OpaqueSum(i, p, ch) ==
    IF i = 0 THEN 0
    ELSE (IF i \in Opaque(p) THEN textures[i].px[p][ch] ELSE 0) + OpaqueSum(i - 1, p, ch)

\* C8: under Average each channel written is the sum of that channel over
\* the opaque layers divided, truncating, by their number.
C8_Average ==
    (pc = "combined" /\ properties.blending = "Average") =>
        \A p \in Coords(mono_texture.w, mono_texture.h) :
            Opaque(p) # {} =>
                mono_texture.px[p] =
                    << OpaqueSum(Len(textures), p, 1) \div Cardinality(Opaque(p)),
                       OpaqueSum(Len(textures), p, 2) \div Cardinality(Opaque(p)),
                       OpaqueSum(Len(textures), p, 3) \div Cardinality(Opaque(p)),
                       255 >>

C8_Witness ==
    /\ pc = "combined"
    /\ properties.blending = "Average"
    /\ Len(textures) = 3
    /\ textures[1].px[<<0, 0>>] = <<255, 0, 0, 255>>
    /\ textures[2].px[<<0, 0>>] = <<0, 0, 0, 0>>
    /\ textures[3].px[<<0, 0>>] = <<1, 1, 1, 255>>
    /\ mono_texture.px[<<0, 0>>] = <<128, 0, 0, 255>>

(***************************************************************************)
(* fill_empty_pixels on its own, one texel of the scan per step.           *)
(***************************************************************************)
FillPixels == {<<0, 0, 0, 0>>, <<100, 100, 100, 255>>}

InitFill ==
    /\ pc = "fill"
    /\ properties \in [fill : {TRUE}, blending : {"Mode"}]
    /\ textures = <<>>
    /\ \E w \in 1 .. MaxFillW, h \in 1 .. MaxFillH :
          mono_texture \in {[w |-> w, h |-> h, px |-> f] : f \in [Coords(w, h) -> FillPixels]}
    /\ fill_cursor = 1
    /\ fill_reads = NoReads
    /\ fill_isolated = {}
    /\ RunIdle /\ ClosestIdle /\ UvIdle /\ HpIdle

\* the texels next to (x, y) that lie in a w by h texture
Adjacent(x, y, w, h) ==
    {q \in Coords(w, h) :
        /\ q # <<x, y>>
        /\ q[1] - x \in {-1, 0, 1}
        /\ q[2] - y \in {-1, 0, 1}}

\* one iteration of the loop of fill_empty_pixels
FillTexel ==
    /\ pc = "fill"
    /\ fill_cursor <= mono_texture.w * mono_texture.h
    /\ LET uv    == scan_at(mono_texture.w, mono_texture.h, fill_cursor)
           empty == get_pixel(mono_texture, uv[1], uv[2])[4] = 0
       IN  /\ mono_texture' = fill_texel(mono_texture, uv[1], uv[2])
           /\ fill_reads' =
                 IF empty
                 THEN [called |-> TRUE, at |-> uv,
                       reads |-> neighbours_read(mono_texture, uv[1], uv[2])]
                 ELSE fill_reads
           /\ fill_isolated' =
                 IF /\ empty
                    /\ \A q \in Adjacent(uv[1], uv[2], mono_texture.w, mono_texture.h) :
                          mono_texture.px[q][4] = 0
                 THEN fill_isolated \cup {uv}
                 ELSE fill_isolated
    /\ fill_cursor' = fill_cursor + 1
    /\ UNCHANGED <<pc, properties, textures, runVars, cfVars, uvVars, hpVars>>

FillReturns ==
    /\ pc = "fill"
    /\ fill_cursor > mono_texture.w * mono_texture.h
    /\ pc' = "filled"
    /\ UNCHANGED <<properties, textures, mono_texture, runVars, fillVars, cfVars, uvVars, hpVars>>

NextFill == FillTexel \/ FillReturns

SpecFill == InitFill /\ [][NextFill]_vars

\* C1: a texel that was transparent, with no non-transparent texel among
\* its neighbours, when the pass visited it is transparent after the pass.
C1_IsolatedStaysTransparent ==
    pc = "filled" => \A p \in fill_isolated : mono_texture.px[p][4] = 0

Clamp(i, lo, hi) == IF i < lo THEN lo ELSE IF i > hi THEN hi ELSE i

\* C10: for each of the 8 offsets the neighbour read for texel (x, y) is at
\* (clamp(x + dx, 0, W - 1), clamp(y + dy, 0, H - 1)).
C10_NeighbourClamped ==
    fill_reads.called =>
        \A k \in 1 .. 8 :
            fill_reads.reads[k] =
                << Clamp(fill_reads.at[1] + ways[k][1], 0, mono_texture.w - 1),
                   Clamp(fill_reads.at[2] + ways[k][2], 0, mono_texture.h - 1) >>

(***************************************************************************)
(* closest_faces on its own.                                               *)
(***************************************************************************)
\* intersects_triangle gives +infinity for a candidate the ray misses
Distances == {Rat(1, 1), Rat(21, 20), Rat(5, 1), Inf}

Nears == {Rat(0, 1), Rat(1, 10)}

Fars == {Rat(10, 1), Rat(1, 20)}

InitClosest ==
    /\ pc = "call"
    /\ properties \in [fill : {FALSE}, blending : {"Mode"}]
    /\ textures = <<>>
    /\ mono_texture = NoImage
    /\ \E n \in 0 .. MaxCands :
          cf_in \in [dist : [1 .. n -> Distances], near : Nears, far : Fars]
    /\ cf_out = <<>>
    /\ RunIdle /\ FillIdle /\ UvIdle /\ HpIdle

CallClosestFaces ==
    /\ pc = "call"
    /\ cf_out' = closest_faces(cf_in.dist, cf_in.near, cf_in.far)
    /\ pc' = "returned"
    /\ UNCHANGED <<properties, textures, mono_texture, cf_in, runVars, fillVars, uvVars, hpVars>>

NextClosest == CallClosestFaces

SpecClosest == InitClosest /\ [][NextClosest]_vars

Returned == {cf_out[k] : k \in 1 .. Len(cf_out)}

Hits == {i \in 1 .. Len(cf_in.dist) : IsNum(cf_in.dist[i])}

RECURSIVE Gcd(_, _)
Gcd(a, b) == IF b = 0 THEN a ELSE Gcd(b, a % b)

\* a <= b, cross-multiplied by the denominators less their common factor
RatLe(a, b) == a.n * (b.d \div Gcd(a.d, b.d)) <= b.n * (a.d \div Gcd(a.d, b.d))

RatMul(a, b) == Rat(a.n * b.n, a.d * b.d)

RatAdd(a, b) == Rat(a.n * b.d + b.n * a.d, a.d * b.d)

RatSub(a, b) == Rat(a.n * b.d - b.n * a.d, a.d * b.d)

\* max(far - near, 0.0001)
Span == IF RatLe(RatSub(cf_in.far, cf_in.near), Rat(1, 10000))
        THEN Rat(1, 10000)
        ELSE RatSub(cf_in.far, cf_in.near)

\* d_i - d_min <= near + d_min / Span, multiplied through by Span > 0
Within(i, m) ==
    RatLe(RatMul(RatSub(cf_in.dist[i], cf_in.dist[m]), Span),
          RatAdd(RatMul(cf_in.near, Span), cf_in.dist[m]))

\* C2 as stated: zero or one candidate is returned as given; of two or
\* more, the closest candidate is always in the result.
C2_ClosestAlwaysReturned ==
    pc = "returned" =>
        /\ Len(cf_in.dist) <= 1 => cf_out = [i \in 1 .. Len(cf_in.dist) |-> i]
        /\ Len(cf_in.dist) >= 2 =>
              \E m \in Returned :
                  \A j \in 1 .. Len(cf_in.dist) : FLe(cf_in.dist[m], cf_in.dist[j])

\* C2, amended: zero or one candidate is returned as given; of two or more,
\* when the ray hits some candidate (a finite distance) the result is exactly
\* the candidates with d_i - d_min <= epsilon, the closest among them; when
\* it hits none (every distance infinite) the result is empty.
C2_ClosestFaces ==
    pc = "returned" =>
        /\ Len(cf_in.dist) <= 1 => cf_out = [i \in 1 .. Len(cf_in.dist) |-> i]
        /\ Len(cf_in.dist) >= 2 =>
              /\ Cardinality(Returned) = Len(cf_out)
              /\ Hits = {} => cf_out = <<>>
              /\ Hits # {} =>
                    \E m \in Hits :
                        /\ \A j \in Hits : RatLe(cf_in.dist[m], cf_in.dist[j])
                        /\ Returned = {i \in Hits : Within(i, m)}
                        /\ m \in Returned

C2_Witness ==
    /\ pc = "returned"
    /\ cf_in = [dist |-> <<Rat(1, 1), Rat(21, 20), Rat(5, 1)>>,
                near |-> Rat(1, 10), far |-> Rat(10, 1)]
    /\ cf_out = <<1, 2>>

(***************************************************************************)
(* The texel loop of face_img_to_uv on its own.  Whether a texel passes    *)
(* the tests that do not depend on clip_uv (has_point on the UV and the    *)
(* camera triangle, the camera image bounds, is_front) is left open.       *)
(***************************************************************************)
InitUv ==
    /\ pc = "loop"
    /\ properties \in [fill : {FALSE}, blending : {"Mode"}]
    /\ textures = <<>>
    /\ mono_texture = NoImage
    /\ uv_in \in {in \in [w : 1 .. MaxTexDim, h : 1 .. MaxTexDim, clip_uv : BOOLEAN,
                         min_u : 0 .. MaxUVCoord, max_u : 0 .. MaxUVCoord,
                         min_v : 0 .. MaxUVCoord, max_v : 0 .. MaxUVCoord] :
                     in.min_u <= in.max_u /\ in.min_v <= in.max_v}
    /\ uv_cursor = <<uv_in.min_u, uv_in.min_v>>
    /\ uv_written = {}
    /\ uv_last = NoVisit
    /\ RunIdle /\ FillIdle /\ ClosestIdle /\ HpIdle

\* one iteration of the loop body for the texel at the cursor; put_pixel
\* panics when the position is outside the layer
VisitTexel ==
    /\ pc = "loop"
    /\ uv_cursor # "done"
    /\ \E passes \in BOOLEAN :
          LET u     == uv_cursor[1]
              v     == uv_cursor[2]
              at    == uv_target(u, v, uv_in.w, uv_in.h, uv_in.clip_uv)
              write == passes /\ uv_accept(u, v, uv_in.w, uv_in.h, uv_in.clip_uv)
          IN  /\ uv_last' = [visited |-> TRUE, u |-> u, v |-> v, passes |-> passes,
                             wrote |-> write, at |-> at]
              /\ IF write /\ at \notin Coords(uv_in.w, uv_in.h)
                 THEN /\ pc' = "panicked"
                      /\ UNCHANGED <<uv_written, uv_cursor>>
                 ELSE /\ uv_written' = IF write THEN uv_written \cup {at} ELSE uv_written
                      /\ uv_cursor' = uv_next(u, v, uv_in)
                      /\ pc' = pc
    /\ UNCHANGED <<properties, textures, mono_texture, uv_in, runVars, fillVars, cfVars, hpVars>>

UvReturns ==
    /\ pc = "loop"
    /\ uv_cursor = "done"
    /\ pc' = "returned"
    /\ UNCHANGED <<properties, textures, mono_texture, runVars, fillVars, cfVars, uvVars, hpVars>>

NextUv == VisitTexel \/ UvReturns

SpecUv == InitUv /\ [][NextUv]_vars

\* C9: with clipping a texel with u >= W or v >= H is never written; without
\* clipping a texel that passes the other tests is written at
\* (u mod W, v mod H); every write is at column x and row H - y - 1 with
\* 0 <= x < W and 0 <= y < H, so put_pixel never panics.
C9_UvClipping ==
    /\ pc # "panicked"
    /\ uv_written \subseteq Coords(uv_in.w, uv_in.h)
    /\ uv_last.visited =>
          /\ (uv_in.clip_uv /\ (uv_last.u >= uv_in.w \/ uv_last.v >= uv_in.h))
                => ~uv_last.wrote
          /\ (~uv_in.clip_uv /\ uv_last.passes) =>
                /\ uv_last.wrote
                /\ uv_last.at = <<uv_last.u % uv_in.w,
                                  uv_in.h - (uv_last.v % uv_in.h) - 1>>
          /\ uv_last.wrote =>
                /\ uv_last.at \in uv_written
                /\ \E x \in 0 .. uv_in.w - 1, y \in 0 .. uv_in.h - 1 :
                      /\ uv_last.at = <<x, uv_in.h - y - 1>>
                      /\ uv_in.clip_uv => (x = uv_last.u /\ y = uv_last.v)

\* a texel right of the texture is written, wrapped, with clipping off
C9_Witness ==
    /\ ~uv_in.clip_uv
    /\ uv_in.w = 2
    /\ uv_in.h = 2
    /\ uv_last.visited
    /\ uv_last.u = 3
    /\ uv_last.v = 2
    /\ uv_last.wrote
    /\ uv_last.at = <<1, 1>>

(***************************************************************************)
(* Tris2D::has_point on its own: every triangle of non-zero area with its  *)
(* vertices on the grid 0 .. MaxGrid, and every point of the grid.         *)
(***************************************************************************)
GridPoints == {[x |-> Rat(i, 1), y |-> Rat(j, 1)] : i \in 0 .. MaxGrid, j \in 0 .. MaxGrid}

\* twice the signed area of the triangle a, b, c
Area2(a, b, c) == (b.x.n - a.x.n) * (c.y.n - a.y.n) - (c.x.n - a.x.n) * (b.y.n - a.y.n)

InitHasPoint ==
    /\ pc = "call"
    /\ properties \in [fill : {FALSE}, blending : {"Mode"}]
    /\ textures = <<>>
    /\ mono_texture = NoImage
    /\ hp_in \in {t \in [a : GridPoints, b : GridPoints, c : GridPoints, pt : GridPoints] :
                     Area2(t.a, t.b, t.c) # 0}
    /\ hp_out = NoAnswer
    /\ RunIdle /\ FillIdle /\ ClosestIdle /\ UvIdle

CallHasPoint ==
    /\ pc = "call"
    /\ hp_out' = [called |-> TRUE,
                  bary   |-> cartesian_to_barycentric(hp_in, hp_in.pt),
                  result |-> has_point(hp_in, hp_in.pt)]
    /\ pc' = "returned"
    /\ UNCHANGED <<properties, textures, mono_texture, hp_in,
                   runVars, fillVars, cfVars, uvVars>>

NextHasPoint == CallHasPoint

SpecHasPoint == InitHasPoint /\ [][NextHasPoint]_vars

InUnit(r) == RatLe(Rat(0, 1), r) /\ RatLe(r, Rat(1, 1))

RatEq(a, b) == RatLe(a, b) /\ RatLe(b, a)

\* C11: for a triangle of non-zero area, has_point is true exactly when the
\* three coordinates of cartesian_to_barycentric all lie in [0, 1]; they
\* sum to 1 and weigh the vertices to the point.
C11_HasPoint ==
    hp_out.called =>
        LET u == hp_out.bary[1]
            v == hp_out.bary[2]
            w == hp_out.bary[3]
            mix(pa, pb, pc_) == RatAdd(RatAdd(RatMul(u, pa), RatMul(v, pb)), RatMul(w, pc_))
        IN  /\ hp_out.result <=> (InUnit(u) /\ InUnit(v) /\ InUnit(w))
            /\ RatEq(RatAdd(RatAdd(u, v), w), Rat(1, 1))
            /\ RatEq(mix(hp_in.a.x, hp_in.b.x, hp_in.c.x), hp_in.pt.x)
            /\ RatEq(mix(hp_in.a.y, hp_in.b.y, hp_in.c.y), hp_in.pt.y)

\* the point is vertex b: v = 1, the bound the code does not test, and the
\* point is accepted
C11_Witness ==
    /\ hp_out.called
    /\ hp_in.pt = hp_in.b
    /\ RatEq(hp_out.bary[2], Rat(1, 1))
    /\ hp_out.result

\* a point beyond b, v > 1, is rejected although v <= 1 is not tested
C11_WitnessOutside ==
    /\ hp_out.called
    /\ ~RatLe(hp_out.bary[2], Rat(1, 1))
    /\ RatLe(Rat(0, 1), hp_out.bary[3])
    /\ ~hp_out.result

====
